---- MODULE Spec2Model ----
(***************************************************************************)
(* Provably fair dice duel (src/unnamed/part_000): the parser, the sampler, *)
(* the commitment generator, the line input, the probability table and the *)
(* sequencing of Game.run, as one state machine; and Game.run of src/dice.js.*)
(***************************************************************************)
EXTENDS Integers, Sequences, FiniteSets, TLC

VARIABLES
    args,             \* process.argv.slice(2): the command line, a sequence of texts
    dice,             \* Game.dice: the parsed dice, a sequence of face sequences
    sha3,             \* crypto.getHashes().includes('sha3-256') on this host
    pc,               \* position of Game.run / CoinFlip.decideFirstPlayer
    computerFirst,    \* run(): computerFirst, None until the coin flip returns
    computerDie,      \* Game.computerDie, None (null) or <<index into dice>>
    userDie,          \* Game.userDie, None (null) or <<index into dice>>
    computerRollFace, \* run(): computerRollFace
    userRollFace,     \* run(): userRollFace
    gen,              \* the live FairRandomGenerator of the current round
    result,           \* the local `result` of the current round
    pubHmac,          \* the digest printed for the current round, None before
    revKey,           \* the key text printed at the reveal of the current round
    revNum,           \* the committed value printed at the reveal of the round
    out,              \* console output of the match, one tag per announcement
    table,            \* the probability table printed at the end, None before
    smax, spc, sres, drew,   \* secureRandomIndex: argument, position, return
                             \* value, whether crypto.randomBytes was called
    imax, ipc, ires, imsg    \* getUserInputStatic: argument, position,
                             \* resolved value, notice shown with the pending
                             \* question ("none" for the first question)

vars == <<args, dice, sha3, pc, computerFirst, computerDie, userDie, computerRollFace,
          userRollFace, gen, result, pubHmac, revKey, revNum, out, table,
          smax, spc, sres, drew, imax, ipc, ires, imsg>>

gameVars == <<args, dice, sha3, pc, computerFirst, computerDie, userDie, computerRollFace,
              userRollFace, gen, result, pubHmac, revKey, revNum, out, table>>
samplerVars == <<smax, spc, sres, drew>>
inputVars == <<imax, ipc, ires, imsg>>

----------------------------------------------------------------------------
(* Bounds *)

MaxFaceSum == 5       \* sum of all face values (each >= 1) over the dice of a match
NumKeys == 1          \* distinct secret keys the entropy source may return
MaxLineLen == 2       \* characters per input line
MaxSampleMax == 9     \* sampler arguments -1..MaxSampleMax in SamplerSpec
MaxCommitMax == 6     \* generator ranges 0..MaxCommitMax in CommitSpec
MaxInputMax == 20     \* prompt ranges 0..MaxInputMax in InputSpec
MaxArgChars == 4      \* characters of a whole command line in ParseSpec

(* Program constants *)

MinDice == 3          \* DiceParser.parseDice: args.length < 3 is rejected
KeyLen == 32          \* SecureRandom.generateKey: crypto.randomBytes(32)
ByteRange == 256      \* one random byte is 0..255
CoinMax == 1          \* new FairRandomGenerator(1)

None == <<>>
Some(v) == <<v>>
Val(o) == o[1]

RECURSIVE Pow2(_)
Pow2(n) == IF n <= 0 THEN 1 ELSE 2 * Pow2(n - 1)

----------------------------------------------------------------------------
(* Dice (class Dice) *)

RECURSIVE SumSeq(_)
SumSeq(f) == IF f = <<>> THEN 0 ELSE f[1] + SumSeq(Tail(f))

RECURSIVE SumFaces(_)
SumFaces(ds) == IF ds = <<>> THEN 0 ELSE SumSeq(ds[1]) + SumFaces(Tail(ds))

MaxDieSum == MaxFaceSum - (MinDice - 1)

Dies == {f \in UNION {[1..k -> 1..MaxDieSum] : k \in 1..MaxDieSum} :
            SumSeq(f) <= MaxDieSum}

\* matches are played with MinDice dice
DiceSets == {ds \in [1..MinDice -> Dies] : SumFaces(ds) <= MaxFaceSum}

numFacesShort(d) == Len(dice[d + 1]) - 1
numFaces(d) == Len(dice[d + 1])

\* Dice.getFace: faces[index % numFaces], 0-based index
getFace(d, index) == dice[d + 1][(index % numFaces(d)) + 1]

----------------------------------------------------------------------------
(* secureRandomIndex *)

\* range.toString(2).length
RECURSIVE BinLen(_)
BinLen(n) == IF n < 2 THEN 1 ELSE 1 + BinLen(n \div 2)

\* bitwise & on non-negative integers
RECURSIVE BitAnd(_, _)
BitAnd(a, b) ==
    IF a = 0 \/ b = 0 THEN 0
    ELSE (IF a % 2 = 1 /\ b % 2 = 1 THEN 1 ELSE 0) + 2 * BitAnd(a \div 2, b \div 2)

SampleRangeZero(max) == 0
SampleRange(max) == max + 1
SampleBits(max) == BinLen(SampleRange(max))
SampleBytes(max) == (SampleBits(max) + 7) \div 8
SampleMask(max) == Pow2(SampleBits(max)) - 1

\* value = (value << 8) + buf[i], over the bytes of buf
RECURSIVE BufValue(_, _)
BufValue(buf, i) ==
    IF i = 0 THEN 0 ELSE BufValue(buf, i - 1) * ByteRange + buf[i]

CandidateMod(max, buf) == BufValue(buf, Len(buf)) % SampleRange(max)
Candidate(max, buf) == BitAnd(BufValue(buf, Len(buf)), SampleMask(max))

\* line 99: the candidate is returned when it is below range
AcceptedWrong(value, max) == value <= SampleRange(max)
Accepted(value, max) == value < SampleRange(max)

Buffers(n) == [1..n -> 0..(ByteRange - 1)]

\* for each argument, the candidates one iteration can draw (evaluated once)
Candidates == [max \in 1..MaxSampleMax |->
                  {Candidate(max, buf) : buf \in Buffers(SampleBytes(max))}]
WideCandidates == [max \in {ByteRange - 1, ByteRange} |->
                      {Candidate(max, buf) : buf \in Buffers(SampleBytes(max))}]
CandidatesOf(max) == IF max <= MaxSampleMax THEN Candidates[max] ELSE WideCandidates[max]

\* lines 85-91: argument check, the max = 0 shortcut, loop set-up
SampleEntry ==
    /\ spc = "entry"
    /\ IF smax < 0 THEN /\ spc' = "thrown"
                        /\ sres' = sres
       ELSE IF smax = 0 THEN /\ spc' = "ret"
                             /\ sres' = 0
       ELSE /\ spc' = "loop"
            /\ sres' = sres
    /\ UNCHANGED <<smax, drew>>
    /\ UNCHANGED gameVars
    /\ UNCHANGED inputVars

\* lines 92-100: one iteration of while (true)
SampleIter ==
    /\ spc = "loop"
    /\ \E value \in CandidatesOf(smax) :
          /\ drew' = TRUE
          /\ IF Accepted(value, smax)
                THEN /\ spc' = "ret"
                     /\ sres' = value
                ELSE /\ spc' = "loop"
                     /\ sres' = sres
    /\ UNCHANGED smax
    /\ UNCHANGED gameVars
    /\ UNCHANGED inputVars

----------------------------------------------------------------------------
(* Text: characters are one-character strings, texts are sequences of them *)

Digits == <<"0", "1", "2", "3", "4", "5", "6", "7", "8", "9">>
HexDigits == <<"0", "1", "2", "3", "4", "5", "6", "7", "8", "9",
               "a", "b", "c", "d", "e", "f">>
LowerLetters == <<"a", "b", "c", "d", "e", "f", "x">>
UpperLetters == <<"A", "B", "C", "D", "E", "F", "X">>

IsDigit(c) == \E i \in 1..10 : Digits[i] = c
DigitVal(c) == (CHOOSE i \in 1..10 : Digits[i] = c) - 1

\* String.prototype.toUpperCase, one character
UpperChar(c) ==
    IF \E i \in 1..Len(LowerLetters) : LowerLetters[i] = c
    THEN UpperLetters[CHOOSE i \in 1..Len(LowerLetters) : LowerLetters[i] = c]
    ELSE c

ToUpperCase(s) == [i \in 1..Len(s) |-> UpperChar(s[i])]

\* String.prototype.trim
RECURSIVE TrimLeft(_)
TrimLeft(s) == IF s # <<>> /\ s[1] = " " THEN TrimLeft(Tail(s)) ELSE s

RECURSIVE TrimRight(_)
TrimRight(s) ==
    IF s # <<>> /\ s[Len(s)] = " " THEN TrimRight(SubSeq(s, 1, Len(s) - 1)) ELSE s

Trim(s) == TrimRight(TrimLeft(s))

\* Number.prototype.toString (decimal) of a non-negative integer
RECURSIVE DecimalString(_)
DecimalString(n) ==
    IF n < 10 THEN <<Digits[n + 1]>>
    ELSE Append(DecimalString(n \div 10), Digits[(n % 10) + 1])

\* Buffer.prototype.toString('hex'): two lower-case hex digits per byte
RECURSIVE HexString(_)
HexString(bytes) ==
    IF bytes = <<>> THEN <<>>
    ELSE <<HexDigits[(bytes[1] \div 16) + 1], HexDigits[(bytes[1] % 16) + 1]>>
         \o HexString(Tail(bytes))

RECURSIVE DecVal(_)
DecVal(s) == IF s = <<>> THEN 0
             ELSE 10 * DecVal(SubSeq(s, 1, Len(s) - 1)) + DigitVal(s[Len(s)])

AllDigits(s) == \A i \in 1..Len(s) : IsDigit(s[i])
AllZero(s) == \A i \in 1..Len(s) : s[i] = "0"

NaN == [nan |-> TRUE, int |-> FALSE, val |-> 0]
Num(isInt, v) == [nan |-> FALSE, int |-> isInt, val |-> v]

\* Number(text) for texts over digits, sign, decimal point and other characters:
\* the empty text is 0; [+-] digits [. digits] or [+-] . digits is a number;
\* anything else is NaN.  val is the integer value when int is TRUE.
JsNumber(text) ==
    LET s == Trim(text)
        signed == s # <<>> /\ s[1] \in {"-", "+"}
        sign == IF s # <<>> /\ s[1] = "-" THEN -1 ELSE 1
        body == IF signed THEN Tail(s) ELSE s
        dots == {i \in 1..Len(body) : body[i] = "."}
        dot == IF dots = {} THEN Len(body) + 1 ELSE CHOOSE i \in dots : TRUE
        ip == SubSeq(body, 1, dot - 1)
        fp == SubSeq(body, dot + 1, Len(body))
    IN  IF s = <<>> THEN Num(TRUE, 0)
        ELSE IF Cardinality(dots) > 1 \/ ~AllDigits(ip) \/ ~AllDigits(fp)
                \/ (ip = <<>> /\ fp = <<>>) THEN NaN
        ELSE Num(AllZero(fp), sign * DecVal(ip))

----------------------------------------------------------------------------
(* DiceParser *)

\* String.prototype.split(','): the texts between the commas, at least one
RECURSIVE Split(_)
Split(s) ==
    LET commas == {i \in 1..Len(s) : s[i] = ","}
    IN  IF commas = {} THEN <<s>>
        ELSE LET i == CHOOSE k \in commas : \A j \in commas : k <= j
             IN  <<SubSeq(s, 1, i - 1)>> \o Split(SubSeq(s, i + 1, Len(s)))

\* lines 26-37 for one argument: the faces, or None when an Error is thrown
ParseFaces(arg) ==
    LET parts == Split(arg)
        nums == [i \in 1..Len(parts) |-> JsNumber(parts[i])]
    IN  IF Len(parts) = 0 THEN None
        ELSE IF \E i \in 1..Len(parts) : nums[i].nan \/ ~nums[i].int THEN None
        ELSE Some([i \in 1..Len(parts) |-> nums[i].val])

\* DiceParser.parseDice: the dice, or None when an Error is thrown
parseDice(a) ==
    IF Len(a) < MinDice THEN None
    ELSE IF \E i \in 1..Len(a) : ParseFaces(a[i]) = None THEN None
    ELSE Some([i \in 1..Len(a) |-> Val(ParseFaces(a[i]))])

\* a command line that parses to the given dice
RECURSIVE JoinFaces(_)
JoinFaces(f) ==
    IF Len(f) = 1 THEN DecimalString(f[1])
    ELSE DecimalString(f[1]) \o <<",">> \o JoinFaces(Tail(f))

ArgsOf(ds) == [i \in 1..Len(ds) |-> JoinFaces(ds[i])]

----------------------------------------------------------------------------
(* SecureRandom and FairRandomGenerator *)

\* crypto.randomBytes(32): the keys the entropy source may return
Keys == {[i \in 1..KeyLen |-> (171 * k + 13 * i) % ByteRange] : k \in 1..NumKeys}

\* SecureRandom.computeHMAC: the keyed hash is collision-free on (algorithm,
\* key, message) and is kept as that triple
computeHMACOn(host, key, number) ==
    <<IF host THEN "sha3-256" ELSE "sha256", key, DecimalString(number)>>

\* on this host
computeHMAC(key, number) == computeHMACOn(sha3, key, number)

NoGen == [max |-> 0, key |-> <<>>, computerNumber |-> 0, hmac |-> <<>>]

getHMAC(g) == g.hmac

computeResultWrong(g, userNumber) == (g.computerNumber * userNumber) % (g.max + 1)
computeResult(g, userNumber) == (g.computerNumber + userNumber) % (g.max + 1)

\* key.toString('hex').toUpperCase() of each key (evaluated once)
KeyTexts == [key \in Keys |-> ToUpperCase(HexString(key))]

getKeyWrong(g) == ToUpperCase(HexString(Tail(g.key) \o <<0>>))
getKey(g) == KeyTexts[g.key]

getComputerNumber(g) == g.computerNumber

\* a call of secureRandomIndex(m)
CallSampler(m) == /\ smax' = m
                  /\ spc' = "entry"
                  /\ sres' = 0
                  /\ drew' = FALSE

\* the caller takes the return value of secureRandomIndex
SamplerReturned == spc = "ret"
SamplerDone == /\ smax' = 0
               /\ spc' = "idle"
               /\ sres' = 0
               /\ drew' = FALSE

----------------------------------------------------------------------------
(* Game.getUserInputStatic *)

Chars == {"0", "1", "2", "x", "X", "?", " ", "-", "."}
Lines == UNION {[1..n -> Chars] : n \in 0..MaxLineLen}

\* a call of getUserInputStatic(m): the first rl.question is issued
CallInput(m) == /\ imax' = m
                /\ ipc' = "wait"
                /\ ires' = None
                /\ imsg' = "none"

InputReturned == ipc = "ret"
InputDone == /\ imax' = 0
             /\ ipc' = "idle"
             /\ ires' = None
             /\ imsg' = "none"

Accepts(num, max) == ~num.nan /\ num.int /\ num.val >= 0 /\ num.val <= max

\* what the rl.question callback does with one input line (lines 218-235):
\* the exit token, the help token, a rejected line, or an accepted number
Classify(inputRaw, max) ==
    LET input == ToUpperCase(Trim(inputRaw))
        num == JsNumber(input)
    IN  IF input = <<"X">> THEN [kind |-> "exit", val |-> 0]
        ELSE IF input = <<"?">> THEN [kind |-> "help", val |-> 0]
        ELSE IF ~Accepts(num, max) THEN [kind |-> "range", val |-> 0]
        ELSE [kind |-> "value", val |-> num.val]

\* the effect of the callback (lines 219-235)
Callback(c) ==
    /\ ipc = "wait"
    /\ IF c.kind = "exit"
       THEN /\ out' = Append(out, "cancelled")
            /\ ipc' = "ret"
            /\ ires' = None
            /\ imsg' = "none"
       ELSE IF c.kind = "help"
       THEN /\ imsg' = "help"
            /\ UNCHANGED <<out, ipc, ires>>
       ELSE IF c.kind = "range"
       THEN /\ imsg' = "range"
            /\ UNCHANGED <<out, ipc, ires>>
       ELSE /\ ipc' = "ret"
            /\ ires' = Some(c.val)
            /\ imsg' = "none"
            /\ UNCHANGED out
    /\ UNCHANGED imax
    /\ UNCHANGED <<args, dice, sha3, pc, computerFirst, computerDie, userDie,
                   computerRollFace, userRollFace, gen, result, pubHmac,
                   revKey, revNum, table>>
    /\ UNCHANGED samplerVars

\* for each range a caller prompts with, what the callback does with each line
\* (evaluated once)
LineOutcome == [max \in 0..MaxInputMax |->
                  [inputRaw \in Lines |-> Classify(inputRaw, max)]]

\* the callback on one given line
InputStep(inputRaw) == Callback(LineOutcome[imax][inputRaw])

\* for each range, what the callback can do over all lines
Outcomes == [max \in 0..MaxInputMax |->
               {LineOutcome[max][inputRaw] : inputRaw \in Lines}]

\* the callback on any line the human may type
ReadLine == \E c \in Outcomes[imax] : Callback(c)

----------------------------------------------------------------------------
(* ProbabilityCalculator *)

\* winProbability: <<wins, total>>, the quotient wins / total (0 when total = 0)
winProbabilityGeq(d1, d2) ==
    LET wins == Cardinality({p \in (0..(numFaces(d1) - 1)) \X (0..(numFaces(d2) - 1)) :
                                getFace(d1, p[1]) >= getFace(d2, p[2])})
        total == numFaces(d1) * numFaces(d2)
    IN  IF total > 0 THEN <<wins, total>> ELSE <<0, 1>>
winProbability(d1, d2) ==
    LET wins == Cardinality({p \in (0..(numFaces(d1) - 1)) \X (0..(numFaces(d2) - 1)) :
                                getFace(d1, p[1]) > getFace(d2, p[2])})
        total == numFaces(d1) * numFaces(d2)
    IN  IF total > 0 THEN <<wins, total>> ELSE <<0, 1>>

\* (p * 100).toFixed(2): hundredths of a percent, rounded to nearest
Percent(p) == (2 * 10000 * p[1] + p[2]) \div (2 * p[2])

\* generateProbabilityTable: one row per die, None ('-') on the diagonal
generateProbabilityTable ==
    [i \in 1..Len(dice) |->
        [j \in 1..Len(dice) |->
            IF i = j THEN None ELSE Some(Percent(winProbability(i - 1, j - 1)))]]

----------------------------------------------------------------------------
(* FairRandomGenerator constructor, in two halves around secureRandomIndex *)

\* lines 105-108: max, key, and the call of secureRandomIndex(max)
NewGenBegin(max) ==
    /\ \E key \in Keys : gen' = [max |-> max, key |-> key,
                                 computerNumber |-> 0, hmac |-> None]
    /\ CallSampler(max)

\* lines 108-109: computerNumber and hmac
NewGenEnd ==
    gen' = [gen EXCEPT !.computerNumber = sres,
                       !.hmac = computeHMAC(gen.key, sres)]

Log(tags) == out' = out \o tags

\* the console.log of the digest (lines 133, 265, 287): only the HMAC is shown
PublishWrong == /\ pubHmac' = getHMAC(gen')
                /\ revKey' = getKey(gen')
                /\ UNCHANGED revNum
Publish == /\ pubHmac' = getHMAC(gen')
           /\ UNCHANGED <<revKey, revNum>>

\* `if (x === null) return;` in run() (lines 167, 182, 185)
OnNullWrong(v, next) == next
OnNull(v, next) == IF v = None THEN "done" ELSE next

\* run() line 179: `if (!this.userDie || !this.computerDie) return;`
AfterSelectWrong(u, c) == "croll"
AfterSelect(u, c) == IF u = None \/ c = None THEN "done" ELSE "croll"

\* decideFirstPlayer line 144: computerFirst = result === 0
computerFirstOfWrong(r) == r = 1
computerFirstOf(r) == r = 0

\* the die each roll uses: this.computerDie in computerRoll, this.userDie in userRoll
ComputerRollDie == Val(computerDie)
UserRollDieWrong == Val(computerDie)
UserRollDie == Val(userDie)

\* the reveal lines of a round: committed value and key, then the arithmetic
Reveal ==
    /\ revNum' = DecimalString(getComputerNumber(gen))
    /\ revKey' = getKey(gen)

----------------------------------------------------------------------------
(* CoinFlip.decideFirstPlayer and Game.run *)

\* run() line 166, decideFirstPlayer lines 131-132
CoinStart ==
    /\ pc = "start"
    /\ Log(<<"coin.intro">>)
    /\ NewGenBegin(CoinMax)
    /\ pc' = "coin_new"
    /\ pubHmac' = None /\ revKey' = None /\ revNum' = None
    /\ UNCHANGED <<args, dice, sha3, computerFirst, computerDie, userDie,
                   computerRollFace, userRollFace, result, table>>
    /\ UNCHANGED inputVars

\* decideFirstPlayer lines 132-140: digest and menu, then the prompt
CoinPublish ==
    /\ pc = "coin_new" /\ SamplerReturned
    /\ NewGenEnd
    /\ Publish
    /\ Log(<<"coin.hmac", "coin.menu">>)
    /\ CallInput(CoinMax)
    /\ SamplerDone
    /\ pc' = "coin_wait"
    /\ UNCHANGED <<args, dice, sha3, computerFirst, computerDie, userDie,
                   computerRollFace, userRollFace, result, table>>

\* decideFirstPlayer lines 141-154 and run() line 167
CoinResolve ==
    /\ pc = "coin_wait" /\ InputReturned
    /\ IF ires = None
       THEN /\ pc' = OnNull(None, "select")
            /\ UNCHANGED <<computerFirst, result, revKey, revNum, out>>
       ELSE LET userChoice == Val(ires)
                r == (getComputerNumber(gen) + userChoice) % 2
            IN  /\ result' = r
                /\ computerFirst' = Some(computerFirstOf(r))
                /\ Reveal
                /\ Log(<<"coin.reveal", "coin.result",
                           IF computerFirstOf(r) THEN "first.computer"
                                                  ELSE "first.user">>)
                /\ pc' = OnNull(computerFirst', "select")
    /\ gen' = NoGen
    /\ InputDone
    /\ UNCHANGED <<args, dice, sha3, computerDie, userDie, computerRollFace,
                   userRollFace, pubHmac, table>>
    /\ UNCHANGED samplerVars

\* the largest die index offered to either chooser: this.dice.length - 1
\* (lines 170, 175, 254)
PickMaxShort == Len(dice) - 2
PickMax == Len(dice) - 1

\* selectUserDie lines 247-254: the menu and the prompt
SelectUserDiePrompt ==
    /\ Log(<<"pick.menu">>)
    /\ CallInput(PickMax)

\* selectUserDie lines 255-258, on the value the prompt resolved with
SelectUserDieTake ==
    IF ires # None
    THEN /\ userDie' = Some(Val(ires))
         /\ Log(<<"pick.user">>)
    ELSE UNCHANGED <<userDie, out>>

\* run() lines 169-170 (computer first) or 173-174 (human first)
SelectStart ==
    /\ pc = "select"
    /\ IF Val(computerFirst)
       THEN /\ CallSampler(PickMax)
            /\ pc' = "cpick_first"
            /\ UNCHANGED out
            /\ UNCHANGED inputVars
       ELSE /\ SelectUserDiePrompt
            /\ pc' = "upick_first"
            /\ UNCHANGED samplerVars
    /\ pubHmac' = None /\ revKey' = None /\ revNum' = None
    /\ UNCHANGED <<args, dice, sha3, computerFirst, computerDie, userDie, computerRollFace,
                   userRollFace, gen, result, table>>

\* run() lines 170-172: the computer's die, then the human is asked
ComputerPickFirst ==
    /\ pc = "cpick_first" /\ SamplerReturned
    /\ computerDie' = Some(sres)
    /\ Log(<<"pick.computer", "pick.menu">>)
    /\ CallInput(PickMax)
    /\ SamplerDone
    /\ pc' = "upick_second"
    /\ UNCHANGED <<args, dice, sha3, computerFirst, userDie, computerRollFace,
                   userRollFace, gen, result, pubHmac, revKey, revNum, table>>

\* run() line 172 returning, then line 179
UserPickSecond ==
    /\ pc = "upick_second" /\ InputReturned
    /\ SelectUserDieTake
    /\ pc' = AfterSelect(userDie', computerDie)
    /\ InputDone
    /\ UNCHANGED <<args, dice, sha3, computerFirst, computerDie, computerRollFace,
                   userRollFace, gen, result, pubHmac, revKey, revNum, table>>
    /\ UNCHANGED samplerVars

\* run() line 174 returning, then the call in line 175
UserPickFirst ==
    /\ pc = "upick_first" /\ InputReturned
    /\ SelectUserDieTake
    /\ CallSampler(PickMax)
    /\ pc' = "cpick_second"
    /\ InputDone
    /\ UNCHANGED <<args, dice, sha3, computerFirst, computerDie, computerRollFace,
                   userRollFace, gen, result, pubHmac, revKey, revNum, table>>

\* run() lines 175-176, then line 179
ComputerPickSecond ==
    /\ pc = "cpick_second" /\ SamplerReturned
    /\ computerDie' = Some(sres)
    /\ Log(<<"pick.computer">>)
    /\ SamplerDone
    /\ pc' = AfterSelect(userDie, computerDie')
    /\ UNCHANGED <<args, dice, sha3, computerFirst, userDie, computerRollFace,
                   userRollFace, gen, result, pubHmac, revKey, revNum, table>>
    /\ UNCHANGED inputVars

----------------------------------------------------------------------------
(* Game.computerRoll and Game.userRoll *)

\* run() line 181, computerRoll lines 262-263
ComputerRollStart ==
    /\ pc = "croll"
    /\ Log(<<"croll.intro">>)
    /\ NewGenBegin(numFaces(ComputerRollDie) - 1)
    /\ pc' = "croll_new"
    /\ pubHmac' = None /\ revKey' = None /\ revNum' = None
    /\ UNCHANGED <<args, dice, sha3, computerFirst, computerDie, userDie,
                   computerRollFace, userRollFace, result, table>>
    /\ UNCHANGED inputVars

\* computerRoll lines 263-270
ComputerRollPublish ==
    /\ pc = "croll_new" /\ SamplerReturned
    /\ NewGenEnd
    /\ Publish
    /\ Log(<<"croll.hmac", "croll.menu">>)
    /\ CallInput(numFaces(ComputerRollDie) - 1)
    /\ SamplerDone
    /\ pc' = "croll_wait"
    /\ UNCHANGED <<args, dice, sha3, computerFirst, computerDie, userDie,
                   computerRollFace, userRollFace, result, table>>

\* computerRoll lines 271-280 and run() line 182
ComputerRollResolve ==
    /\ pc = "croll_wait" /\ InputReturned
    /\ IF ires = None
       THEN /\ pc' = OnNull(None, "uroll")
            /\ UNCHANGED <<computerRollFace, result, revKey, revNum, out>>
       ELSE LET userNumber == Val(ires)
                r == computeResult(gen, userNumber)
            IN  /\ result' = r
                /\ Reveal
                /\ Log(<<"croll.reveal", "croll.result">>)
                /\ computerRollFace' = Some(getFace(ComputerRollDie, r))
                /\ pc' = OnNull(computerRollFace', "uroll")
    /\ gen' = NoGen
    /\ InputDone
    /\ UNCHANGED <<args, dice, sha3, computerFirst, computerDie, userDie,
                   userRollFace, pubHmac, table>>
    /\ UNCHANGED samplerVars

\* run() line 184, userRoll lines 284-285
UserRollStart ==
    /\ pc = "uroll"
    /\ Log(<<"uroll.intro">>)
    /\ NewGenBegin(numFaces(UserRollDie) - 1)
    /\ pc' = "uroll_new"
    /\ pubHmac' = None /\ revKey' = None /\ revNum' = None
    /\ UNCHANGED <<args, dice, sha3, computerFirst, computerDie, userDie,
                   computerRollFace, userRollFace, result, table>>
    /\ UNCHANGED inputVars

\* userRoll lines 285-292
UserRollPublish ==
    /\ pc = "uroll_new" /\ SamplerReturned
    /\ NewGenEnd
    /\ Publish
    /\ Log(<<"uroll.hmac", "uroll.menu">>)
    /\ CallInput(numFaces(UserRollDie) - 1)
    /\ SamplerDone
    /\ pc' = "uroll_wait"
    /\ UNCHANGED <<args, dice, sha3, computerFirst, computerDie, userDie,
                   computerRollFace, userRollFace, result, table>>

\* userRoll lines 293-302 and run() line 185
UserRollResolve ==
    /\ pc = "uroll_wait" /\ InputReturned
    /\ IF ires = None
       THEN /\ pc' = OnNull(None, "resolve")
            /\ UNCHANGED <<userRollFace, result, revKey, revNum, out>>
       ELSE LET userNumber == Val(ires)
                r == computeResult(gen, userNumber)
            IN  /\ result' = r
                /\ Reveal
                /\ Log(<<"uroll.reveal", "uroll.result">>)
                /\ userRollFace' = Some(getFace(UserRollDie, r))
                /\ pc' = OnNull(userRollFace', "resolve")
    /\ gen' = NoGen
    /\ InputDone
    /\ UNCHANGED <<args, dice, sha3, computerFirst, computerDie, userDie,
                   computerRollFace, pubHmac, table>>
    /\ UNCHANGED samplerVars

\* run() lines 190-196
VerdictWrong(u, c) == IF u >= c THEN "verdict.user" ELSE "verdict.computer"
Verdict(u, c) ==
    IF u > c THEN "verdict.user"
    ELSE IF c > u THEN "verdict.computer"
    ELSE "verdict.tie"

\* run() lines 187-199
Resolve ==
    /\ pc = "resolve"
    /\ Log(<<"roll.user", "roll.computer",
             Verdict(Val(userRollFace), Val(computerRollFace)),
             "table.title", "table">>)
    /\ table' = Some(generateProbabilityTable)
    /\ pc' = "done"
    /\ UNCHANGED <<args, dice, sha3, computerFirst, computerDie, userDie, computerRollFace,
                   userRollFace, gen, result, pubHmac, revKey, revNum>>
    /\ UNCHANGED samplerVars
    /\ UNCHANGED inputVars

----------------------------------------------------------------------------
(* The match: main() after a successful parseDice, new Game(dice) *)

Init ==
    /\ dice \in DiceSets
    /\ args = ArgsOf(dice)
    /\ sha3 \in BOOLEAN
    /\ pc = "start"
    /\ computerFirst = None
    /\ computerDie = None
    /\ userDie = None
    /\ computerRollFace = None
    /\ userRollFace = None
    /\ gen = NoGen
    /\ result = 0
    /\ pubHmac = None /\ revKey = None /\ revNum = None
    /\ out = <<>>
    /\ table = None
    /\ smax = 0 /\ spc = "idle" /\ sres = 0 /\ drew = FALSE
    /\ imax = 0 /\ ipc = "idle" /\ ires = None /\ imsg = "none"

Next ==
    \/ CoinStart
    \/ CoinPublish
    \/ CoinResolve
    \/ SelectStart
    \/ ComputerPickFirst
    \/ UserPickSecond
    \/ UserPickFirst
    \/ ComputerPickSecond
    \/ ComputerRollStart
    \/ ComputerRollPublish
    \/ ComputerRollResolve
    \/ UserRollStart
    \/ UserRollPublish
    \/ UserRollResolve
    \/ Resolve
    \/ SampleEntry
    \/ SampleIter
    \/ ReadLine

Spec == Init /\ [][Next]_vars

\* the steps of run() itself: each runs as soon as the call it waits for returns
RunStep ==
    \/ CoinStart
    \/ CoinPublish
    \/ CoinResolve
    \/ SelectStart
    \/ ComputerPickFirst
    \/ UserPickSecond
    \/ UserPickFirst
    \/ ComputerPickSecond
    \/ ComputerRollStart
    \/ ComputerRollPublish
    \/ ComputerRollResolve
    \/ UserRollStart
    \/ UserRollPublish
    \/ UserRollResolve
    \/ Resolve

\* the code runs whenever it can; a rejection loop eventually draws a candidate
\* below its range; at a prompt the human eventually enters the exit token or an
\* integer in range
Fairness ==
    /\ WF_vars(RunStep)
    /\ WF_vars(SampleEntry)
    /\ WF_vars(SampleIter /\ spc' = "ret")
    /\ WF_vars(ReadLine /\ ipc' = "ret")

FairSpec == Init /\ [][Next]_vars /\ Fairness

----------------------------------------------------------------------------
(* secureRandomIndex on its own, over a range of arguments *)

SampleMaxes == (-1..MaxSampleMax) \cup {ByteRange - 1, ByteRange}

SamplerInit ==
    /\ args = <<>>
    /\ dice = <<>>
    /\ sha3 \in BOOLEAN
    /\ pc = "sampler"
    /\ computerFirst = None
    /\ computerDie = None
    /\ userDie = None
    /\ computerRollFace = None
    /\ userRollFace = None
    /\ gen = NoGen
    /\ result = 0
    /\ pubHmac = None /\ revKey = None /\ revNum = None
    /\ out = <<>>
    /\ table = None
    /\ smax \in SampleMaxes /\ spc = "entry" /\ sres = 0 /\ drew = FALSE
    /\ imax = 0 /\ ipc = "idle" /\ ires = None /\ imsg = "none"

SamplerNext ==
    \/ SampleEntry
    \/ SampleIter

SamplerSpec == SamplerInit /\ [][SamplerNext]_vars

----------------------------------------------------------------------------
(* FairRandomGenerator on its own: every range and committed value, every *)
(* counterpart value                                                       *)

CommitInit ==
    /\ args = <<>>
    /\ dice = <<>>
    /\ sha3 \in BOOLEAN
    /\ pc = "commit"
    /\ computerFirst = None
    /\ computerDie = None
    /\ userDie = None
    /\ computerRollFace = None
    /\ userRollFace = None
    /\ \E max \in 0..MaxCommitMax, key \in Keys :
          \E c \in 0..max :
             gen = [max |-> max, key |-> key, computerNumber |-> c,
                    hmac |-> computeHMAC(key, c)]
    /\ result = 0
    /\ pubHmac = None /\ revKey = None /\ revNum = None
    /\ out = <<>>
    /\ table = None
    /\ smax = 0 /\ spc = "idle" /\ sres = 0 /\ drew = FALSE
    /\ imax = 0 /\ ipc = "idle" /\ ires = None /\ imsg = "none"

\* generator.computeResult(userNumber) for a counterpart value in [0, max]
Combine ==
    /\ pc \in {"commit", "combined"}
    /\ \E userNumber \in 0..gen.max : result' = computeResult(gen, userNumber)
    /\ pc' = "combined"
    /\ UNCHANGED <<args, dice, sha3, computerFirst, computerDie, userDie, computerRollFace,
                   userRollFace, gen, pubHmac, revKey, revNum, out, table>>
    /\ UNCHANGED samplerVars
    /\ UNCHANGED inputVars

CommitNext == Combine

CommitSpec == CommitInit /\ [][CommitNext]_vars

----------------------------------------------------------------------------
(* Properties *)

Has(tag) == \E i \in 1..Len(out) : out[i] = tag
Pos(tag) == CHOOSE i \in 1..Len(out) : out[i] = tag /\ \A j \in 1..(i - 1) : out[j] # tag
Count(tag) == Cardinality({i \in 1..Len(out) : out[i] = tag})
Before(a, b) == Has(a) /\ Has(b) /\ Pos(a) < Pos(b)

Cancelled == Has("cancelled")
VerdictTags == {"verdict.user", "verdict.computer", "verdict.tie"}
HasVerdict == \E t \in VerdictTags : Has(t)

\* the menu after which the exit token was entered
CancelledAt(menu) == Cancelled /\ Pos("cancelled") > 1 /\ out[Pos("cancelled") - 1] = menu

\* C1: when the exit token is entered at any of the four prompts, the match
\* ends without a roll value for that or any later roll, without a verdict and
\* without the probability table; it only unwinds to the end of run().
C1_ExitProducesNothing ==
    Cancelled =>
        /\ \E menu \in {"coin.menu", "pick.menu", "croll.menu", "uroll.menu"} :
              CancelledAt(menu)
        /\ Count("cancelled") = 1
        /\ userRollFace = None
        /\ (~CancelledAt("uroll.menu") => computerRollFace = None)
        /\ ~HasVerdict /\ ~Has("roll.user") /\ ~Has("roll.computer")
        /\ ~Has("table") /\ table = None
        /\ pc \in {"coin_wait", "upick_first", "upick_second", "cpick_second",
                   "croll_wait", "uroll_wait", "done"}

C1_Witness ==
    /\ pc = "done" /\ CancelledAt("uroll.menu")
    /\ computerRollFace # None /\ userRollFace = None /\ table = None

Rounds == {"coin", "croll", "uroll"}
RoundOf(p) == IF p \in {"coin_new", "coin_wait"} THEN "coin"
              ELSE IF p \in {"croll_new", "croll_wait"} THEN "croll"
              ELSE IF p \in {"uroll_new", "uroll_wait"} THEN "uroll"
              ELSE "none"
Tag(round, what) == IF round = "coin" THEN "coin." \o what
                    ELSE IF round = "croll" THEN "croll." \o what
                    ELSE "uroll." \o what

\* C2: in every commitment round the digest is printed before the human's
\* contribution is requested, and the key and the committed value are printed
\* only after that contribution has been received.
C2_DigestBeforeRevealAfter ==
    /\ \A r \in Rounds :
          /\ (Has(Tag(r, "menu")) => Before(Tag(r, "hmac"), Tag(r, "menu")))
          /\ (Has(Tag(r, "reveal")) => Before(Tag(r, "menu"), Tag(r, "reveal")))
    /\ (RoundOf(pc) # "none" =>
          /\ revKey = None /\ revNum = None
          /\ ~Has(Tag(RoundOf(pc), "reveal"))
          /\ (ipc # "idle" => /\ pubHmac # None
                              /\ pubHmac = getHMAC(gen)
                              /\ Has(Tag(RoundOf(pc), "hmac"))))
    /\ (ipc # "idle" /\ RoundOf(pc) = "none" => pc \in {"upick_first", "upick_second"})
    /\ ((revKey # None \/ revNum # None) =>
          /\ pubHmac # None /\ revKey # None /\ revNum # None
          /\ ipc = "idle")

C2_Witness ==
    /\ pc = "uroll" /\ revKey # None /\ revNum # None
    /\ Before("croll.hmac", "croll.reveal")

UpperHexDigits == <<"0", "1", "2", "3", "4", "5", "6", "7", "8", "9",
                    "A", "B", "C", "D", "E", "F">>
HexVal(c) == (CHOOSE i \in 1..16 : UpperHexDigits[i] = c) - 1

\* the bytes an auditor reads from the revealed key text
RECURSIVE ParseHex(_)
ParseHex(text) ==
    IF Len(text) < 2 THEN <<>>
    ELSE <<16 * HexVal(text[1]) + HexVal(text[2])>> \o ParseHex(SubSeq(text, 3, Len(text)))

\* C3: the key and committed value shown at the reveal are the ones the
\* published digest was computed from: the keyed hash of the revealed pair is
\* the published digest, whatever the counterpart supplied in between.
C3_RevealMatchesDigest ==
    revKey # None =>
        /\ Len(revKey) = 2 * KeyLen
        /\ computeHMAC(ParseHex(revKey), DecVal(revNum)) = pubHmac

C3_Witness ==
    /\ pc = "resolve" /\ revKey # None /\ DecVal(revNum) > 0 /\ result = 0

\* C4: for a fixed committed value, computeResult maps the counterpart values
\* 0..max one-to-one onto 0..max.
C4_CombineBijection ==
    pc \in {"commit", "combined"} =>
        LET R == 0..gen.max IN
        /\ \A u \in R : computeResult(gen, u) \in R
        /\ \A u1, u2 \in R : u1 # u2 => computeResult(gen, u1) # computeResult(gen, u2)
        /\ \A r \in R : \E u \in R : computeResult(gen, u) = r
        /\ (pc = "combined" => result \in R)

C4_Witness ==
    /\ pc = "combined" /\ gen.max = 2 /\ gen.computerNumber = 2 /\ result = 1

Rank(p) ==
    IF p = "start" THEN 0
    ELSE IF p \in {"coin_new", "coin_wait"} THEN 1
    ELSE IF p \in {"select", "cpick_first", "upick_second",
                   "upick_first", "cpick_second"} THEN 2
    ELSE IF p \in {"croll", "croll_new", "croll_wait"} THEN 3
    ELSE IF p \in {"uroll", "uroll_new", "uroll_wait"} THEN 4
    ELSE IF p = "resolve" THEN 5
    ELSE 6

InputWaits == {"coin_wait", "upick_first", "upick_second", "croll_wait", "uroll_wait"}

C5_PhaseState ==
    /\ (Rank(pc) \in {3, 4, 5} => userDie # None /\ computerDie # None)
    /\ (Rank(pc) \in {4, 5} => computerRollFace # None)
    /\ (Rank(pc) \in {0, 1, 2, 3} => computerRollFace = None)
    /\ (Rank(pc) = 5 => userRollFace # None)
    /\ (Rank(pc) < 5 => userRollFace = None)
    /\ (table # None => pc = "done")
    /\ (pc \in InputWaits => ipc \in {"wait", "ret"})
    /\ (ipc = "wait" =>
          /\ pc \in InputWaits
          /\ ENABLED (InputStep(<<"X">>) /\ ipc' = "ret" /\ ires' = None
                      /\ out' = Append(out, "cancelled")))

C5_PhaseStep ==
    /\ (Rank(pc') = Rank(pc) \/ Rank(pc') = Rank(pc) + 1 \/ pc' = "done")
    /\ (Cancelled => Rank(pc') = Rank(pc) \/ pc' = "done")
    /\ (pc = "done" => pc' = "done")
    /\ (pc # "done" /\ pc' = "done" => Cancelled \/ (pc = "resolve" /\ table' # None))

\* C5: the match goes through coin flip, die selection, computer roll, human
\* roll and resolution in this order, one phase at a time; no roll starts before
\* both sides hold a die; the computer's roll is complete before the human's
\* starts; every human-input wait can be cancelled; after resolution or
\* cancellation no further phase is entered.
C5_PhaseOrder == []C5_PhaseState /\ [][C5_PhaseStep]_vars

C5_Witness ==
    /\ pc = "done" /\ table # None /\ ~Cancelled
    /\ Before("coin.intro", "pick.menu") /\ Before("pick.menu", "croll.intro")
    /\ Before("croll.intro", "uroll.intro") /\ Before("uroll.intro", "table")

\* C6: once the exit token has been received, the match does nothing more: no
\* die is assigned, no random value is sampled, no commitment is created and
\* nothing is announced.
C6_NothingAfterExit ==
    [][Cancelled =>
          /\ computerDie' = computerDie
          /\ userDie' = userDie
          /\ spc' \in {spc, "idle"}
          /\ (gen' # gen => gen' = NoGen)
          /\ out' = out]_vars

\* C7: each roll runs its own commitment round with max = numFaces - 1 of the
\* rolling side's die, the combined result is an index of that die, and the
\* rolled value is the face of that die at that index.
C7_RollUsesOwnDie ==
    /\ (pc \in {"croll_new", "croll_wait"} =>
          gen.max = Len(dice[Val(computerDie) + 1]) - 1)
    /\ (pc \in {"uroll_new", "uroll_wait"} =>
          gen.max = Len(dice[Val(userDie) + 1]) - 1)
    /\ (pc \in {"croll_wait", "uroll_wait"} => gen.computerNumber \in 0..gen.max)
    /\ (pc = "uroll" =>
          /\ result \in 0..(Len(dice[Val(computerDie) + 1]) - 1)
          /\ computerRollFace = Some(dice[Val(computerDie) + 1][result + 1]))
    /\ (pc = "resolve" =>
          /\ result \in 0..(Len(dice[Val(userDie) + 1]) - 1)
          /\ userRollFace = Some(dice[Val(userDie) + 1][result + 1]))

C7_Witness ==
    /\ pc = "resolve"
    /\ Len(dice[Val(userDie) + 1]) > Len(dice[Val(computerDie) + 1])
    /\ result = Len(dice[Val(userDie) + 1]) - 1
    /\ Val(userRollFace) # dice[Val(userDie) + 1][1]

\* C8: when both rolls are complete the verdict is for the human exactly when
\* the human's face is greater, for the computer exactly when the computer's
\* face is greater, a tie exactly when they are equal, and the probability
\* table over all dice is printed after the verdict.
C8_VerdictAndTable ==
    (pc = "done" /\ userRollFace # None) =>
        LET u == Val(userRollFace)
            c == Val(computerRollFace)
        IN  /\ Cardinality({t \in VerdictTags : Has(t)}) = 1
            /\ (Has("verdict.user") <=> u > c)
            /\ (Has("verdict.computer") <=> c > u)
            /\ (Has("verdict.tie") <=> u = c)
            /\ \A t \in VerdictTags : Has(t) => Before(t, "table")
            /\ out[Len(out)] = "table"
            /\ table # None
            /\ Len(Val(table)) = Len(dice)
            /\ \A i \in 1..Len(dice) : Len(Val(table)[i]) = Len(dice)

C8_Witness ==
    /\ pc = "done" /\ Has("verdict.computer") /\ out[Len(out)] = "table"
    /\ Val(computerRollFace) > Val(userRollFace)

C9_CoinState ==
    /\ (pc \in {"coin_new", "coin_wait"} => gen.max = 1)
    /\ (pc = "coin_wait" => gen.computerNumber \in {0, 1})
    /\ (Has("first.computer") <=> computerFirst = Some(TRUE))
    /\ (Has("first.user") <=> computerFirst = Some(FALSE))
    /\ (computerFirst = Some(TRUE) =>
          /\ pc # "upick_first" /\ pc # "cpick_second"
          /\ (Has("pick.menu") => Before("pick.computer", "pick.menu"))
          /\ (pc = "upick_second" => computerDie # None))
    /\ (computerFirst = Some(FALSE) =>
          /\ pc # "cpick_first" /\ pc # "upick_second"
          /\ (Has("pick.computer") => Before("pick.menu", "pick.computer"))
          /\ (pc = "upick_first" => computerDie = None))

C9_CoinStep ==
    (pc = "coin_wait" /\ pc' # "coin_wait" /\ ires # None) =>
        /\ ires \in {Some(0), Some(1)}
        /\ computerFirst' = Some((gen.computerNumber + Val(ires)) % 2 = 0)

\* C9: the coin flip is one commitment round with max = 1; the computer selects
\* first exactly when (committedValue + humanChoice) mod 2 is 0, and then its
\* die is chosen before the human is prompted; otherwise the human is prompted
\* first.
C9_CoinDecidesOrder == []C9_CoinState /\ [][C9_CoinStep]_vars

C9_Witness ==
    /\ computerFirst = Some(FALSE) /\ pc = "croll"
    /\ Before("pick.menu", "pick.computer")

\* C10: secureRandomIndex(max) returns only integers in 0..max, and for
\* max = 0 it returns 0 without drawing random bytes.
C10_SampleInRange ==
    /\ (spc = "ret" => sres \in 0..smax)
    /\ (spc = "ret" /\ smax = 0 => sres = 0 /\ ~drew)
    /\ (spc = "ret" /\ smax > 0 => drew)
    /\ (spc = "thrown" => smax < 0)

C10_Witness ==
    /\ spc = "ret" /\ smax = 2 /\ sres = 2 /\ drew

\* the number of one-byte buffers whose candidate is v, for each argument that
\* draws one byte
BufferCount == [max \in 1..MaxSampleMax |->
                  [v \in 0..max |->
                      Cardinality({buf \in Buffers(1) : Candidate(max, buf) = v})]]

\* C11: for max >= 1 a masked candidate is returned, unchanged, exactly when it
\* is below max + 1 and every other candidate is redrawn; the candidates of one
\* draw are the 2^b values 0..2^b - 1, so every value of 0..max is returned for
\* exactly one candidate and for as many random buffers as any other value.
C11_NoModuloBias ==
    spc = "loop" =>
        LET all == 0..(Pow2(SampleBits(smax)) - 1) IN
        /\ smax >= 1
        /\ CandidatesOf(smax) = all
        /\ \A v \in all :
              (v <= smax) <=> ENABLED (SampleIter /\ spc' = "ret" /\ sres' = v)
        /\ ((\E c \in all : c > smax) <=> ENABLED (SampleIter /\ spc' = "loop"))
        /\ (smax <= MaxSampleMax =>
              \A v, w \in 0..smax : BufferCount[smax][v] = BufferCount[smax][w])

C11_Witness ==
    /\ spc = "ret" /\ smax = 5 /\ sres = 5 /\ drew

----------------------------------------------------------------------------
(* getUserInputStatic on its own: every range, every line *)

InputInit ==
    /\ args = <<>>
    /\ dice = <<>>
    /\ sha3 \in BOOLEAN
    /\ pc = "input"
    /\ computerFirst = None
    /\ computerDie = None
    /\ userDie = None
    /\ computerRollFace = None
    /\ userRollFace = None
    /\ gen = NoGen
    /\ result = 0
    /\ pubHmac = None /\ revKey = None /\ revNum = None
    /\ out = <<>>
    /\ table = None
    /\ smax = 0 /\ spc = "idle" /\ sres = 0 /\ drew = FALSE
    /\ imax \in 0..MaxInputMax /\ ipc = "wait" /\ ires = None /\ imsg = "none"

InputNext == ReadLine

InputSpec == InputInit /\ [][InputNext]_vars

\* C12: a line that is the exit token (either case) resolves the prompt with the
\* cancellation, a line that is a number with an integer value in 0..max resolves
\* it with that value, and every other line, the empty and the whitespace-only
\* line included, leaves the prompt waiting with a message and is never returned.
C12_OnlyExitOrInRange ==
    ipc = "wait" =>
        \A line \in Lines :
            \E c \in {LineOutcome[imax][line]} :
                LET t == ToUpperCase(Trim(line))
                    n == JsNumber(t)
                IN  IF t = <<"X">>
                    THEN ENABLED (Callback(c) /\ ipc' = "ret" /\ ires' = None)
                    ELSE IF t # <<>> /\ Accepts(n, imax)
                    THEN ENABLED (Callback(c) /\ ipc' = "ret" /\ ires' = Some(n.val))
                    ELSE ENABLED (Callback(c) /\ ipc' = "wait" /\ imsg' # "none")

----------------------------------------------------------------------------
(* main on its own: every command line up to MaxArgChars characters, parsed *)
(* and, when parseDice returns, the match begun                             *)

ArgChars == {"1", ",", "x"}

\* the lists of k texts with at most n characters in all
RECURSIVE ArgLists(_, _)
ArgLists(k, n) ==
    IF k = 0 THEN {<<>>}
    ELSE UNION {{<<t>> \o rest : t \in [1..m -> ArgChars], rest \in ArgLists(k - 1, n - m)} :
                   m \in 0..n}

CommandLines == UNION {ArgLists(k, MaxArgChars) : k \in 0..(MinDice + 1)}

ParseInit ==
    /\ args \in CommandLines
    /\ dice = <<>>
    /\ sha3 \in BOOLEAN
    /\ pc = "main"
    /\ computerFirst = None
    /\ computerDie = None
    /\ userDie = None
    /\ computerRollFace = None
    /\ userRollFace = None
    /\ gen = NoGen
    /\ result = 0
    /\ pubHmac = None /\ revKey = None /\ revNum = None
    /\ out = <<>>
    /\ table = None
    /\ smax = 0 /\ spc = "idle" /\ sres = 0 /\ drew = FALSE
    /\ imax = 0 /\ ipc = "idle" /\ ires = None /\ imsg = "none"

\* main lines 307-313: parseDice and new Game, or the catch block
Main ==
    /\ pc = "main"
    /\ \E parsed \in {parseDice(args)} :
          IF parsed = None
          THEN /\ out' = Append(out, "error")
               /\ pc' = "done"
               /\ UNCHANGED dice
          ELSE /\ dice' = Val(parsed)
               /\ pc' = "start"
               /\ UNCHANGED out
    /\ UNCHANGED <<args, sha3, computerFirst, computerDie, userDie, computerRollFace,
                   userRollFace, gen, result, pubHmac, revKey, revNum, table>>
    /\ UNCHANGED samplerVars
    /\ UNCHANGED inputVars

ParseNext ==
    \/ Main
    \/ CoinStart

ParseSpec == ParseInit /\ [][ParseNext]_vars

\* an integer token: not empty, and a number with an integer value
IntegerToken(t) == t # <<>> /\ ~JsNumber(t).nan /\ JsNumber(t).int

\* C13: when the command line has fewer than 3 die specifications, or some
\* comma-separated token of some specification is not an integer (an empty token
\* included), main reports the error and starts no match: no coin flip, no
\* prompt, no commitment.
C13_BadArgsStartNoMatch ==
    (pc # "main" /\ (\/ Len(args) < MinDice
                     \/ \E i \in 1..Len(args) :
                           \E j \in 1..Len(Split(args[i])) :
                              ~IntegerToken(Split(args[i])[j])))
        => /\ pc = "done"
           /\ out = <<"error">>
           /\ gen = NoGen
           /\ ipc = "idle"

----------------------------------------------------------------------------
(* ProbabilityCalculator on its own: the table of every dice set, and of the *)
(* non-transitive set of the usage example (line 20), faces in ascending    *)
(* order                                                                     *)

ExampleDice == << <<2, 2, 4, 4, 9, 9>>, <<1, 1, 6, 6, 8, 8>>, <<3, 3, 5, 5, 7, 7>> >>

TableInit ==
    /\ dice \in DiceSets \cup {ExampleDice}
    /\ args = ArgsOf(dice)
    /\ sha3 \in BOOLEAN
    /\ pc = "table"
    /\ computerFirst = None
    /\ computerDie = None
    /\ userDie = None
    /\ computerRollFace = None
    /\ userRollFace = None
    /\ gen = NoGen
    /\ result = 0
    /\ pubHmac = None /\ revKey = None /\ revNum = None
    /\ out = <<>>
    /\ table = None
    /\ smax = 0 /\ spc = "idle" /\ sres = 0 /\ drew = FALSE
    /\ imax = 0 /\ ipc = "idle" /\ ires = None /\ imsg = "none"

\* generateProbabilityTable(dice) and its printing (lines 196-199)
Tabulate ==
    /\ pc = "table"
    /\ Log(<<"table.title", "table">>)
    /\ table' = Some(generateProbabilityTable)
    /\ pc' = "done"
    /\ UNCHANGED <<args, dice, sha3, computerFirst, computerDie, userDie, computerRollFace,
                   userRollFace, gen, result, pubHmac, revKey, revNum>>
    /\ UNCHANGED samplerVars
    /\ UNCHANGED inputVars

TableNext == Tabulate

TableSpec == TableInit /\ [][TableNext]_vars

\* face pairs on which two dice show the same value
Ties(d1, d2) ==
    Cardinality({p \in (1..Len(dice[d1 + 1])) \X (1..Len(dice[d2 + 1])) :
                    dice[d1 + 1][p[1]] = dice[d2 + 1][p[2]]})

\* C14: for any two dice a and b, the wins of a over b, the wins of b over a and
\* the ties add up to a.numFaces * b.numFaces, the total the quotient is taken
\* over; the printed table holds these quotients.
C14_WinsAndTiesPartition ==
    table # None =>
        \A a, b \in 0..(Len(dice) - 1) :
            /\ winProbability(a, b)[1] + winProbability(b, a)[1] + Ties(a, b)
                  = Len(dice[a + 1]) * Len(dice[b + 1])
            /\ winProbability(a, b)[2] = Len(dice[a + 1]) * Len(dice[b + 1])
            /\ (a # b => Val(table)[a + 1][b + 1] = Some(Percent(winProbability(a, b))))

C14_Witness ==
    /\ table # None
    /\ \E a, b \in 0..(Len(dice) - 1) :
          /\ a # b
          /\ Ties(a, b) > 0
          /\ winProbability(a, b)[1] > 0

\* C15: for the dice 2,2,4,4,9,9 / 1,1,6,6,8,8 / 3,3,5,5,7,7 the first beats the
\* second, the second beats the third and the third beats the first on exactly
\* 20 of the 36 face pairs.
C15_NonTransitiveExample ==
    (table # None /\ dice = ExampleDice) =>
        /\ winProbability(0, 1) = <<20, 36>>
        /\ winProbability(1, 2) = <<20, 36>>
        /\ winProbability(2, 0) = <<20, 36>>
        /\ Val(table)[1][2] = Some(Percent(<<20, 36>>))
        /\ Val(table)[2][3] = Some(Percent(<<20, 36>>))
        /\ Val(table)[3][1] = Some(Percent(<<20, 36>>))

C15_Witness ==
    /\ table # None
    /\ dice = ExampleDice
    /\ Val(table)[1][2] = Some(5556)

\* C16: the published digest is the one any host computes for the same key and
\* the same committed value, whichever hash algorithms the host makes available.
C16_DigestIndependentOfHost ==
    pubHmac # None =>
        \A host \in BOOLEAN :
            computeHMACOn(host, gen.key, gen.computerNumber) = pubHmac

C17_PickState ==
    /\ (pc = "upick_second" /\ ipc = "wait" =>
          /\ computerDie # None
          /\ imax = Len(dice) - 1
          /\ \A d \in 0..(Len(dice) - 1) :
                \E c \in {LineOutcome[imax][DecimalString(d)]} :
                    ENABLED (Callback(c) /\ ipc' = "ret" /\ ires' = Some(d)))
    /\ (pc = "cpick_second" /\ spc = "loop" =>
          /\ smax = Len(dice) - 1
          /\ \A d \in 0..(Len(dice) - 1) :
                ENABLED (SampleIter /\ spc' = "ret" /\ sres' = d))

C17_PickStep ==
    /\ (userDie # None => userDie' = userDie)
    /\ (computerDie # None => computerDie' = computerDie)
    /\ (userDie' # userDie =>
          pc \in {"upick_first", "upick_second"} /\ userDie' = ires
          /\ Val(ires) \in 0..(Len(dice) - 1))
    /\ (computerDie' # computerDie =>
          pc \in {"cpick_first", "cpick_second"} /\ computerDie' = Some(sres)
          /\ sres \in 0..(Len(dice) - 1))

\* C17: whoever chooses second chooses from the full dice set, the die the first
\* chooser took included, so both sides may hold the same die or dice with
\* different face counts; each side's die is assigned at most once and never
\* changes afterwards.
C17_SecondChooserFullSet == []C17_PickState /\ [][C17_PickStep]_vars

C17_Witness ==
    /\ pc = "croll"
    /\ computerDie # None /\ userDie = computerDie
    /\ \E d \in 1..Len(dice) : Len(dice[d]) # Len(dice[Val(userDie) + 1])

\* C18: for max >= 1 the bit-width the sampler masks to is the smallest b with
\* 2^b >= max + 1, and ceil(b / 8) random bytes are drawn per attempt.
C18_MinimalBitWidth ==
    (spc = "loop" /\ smax >= 1) =>
        LET b == SampleBits(smax) IN
        /\ Pow2(b) >= smax + 1
        /\ Pow2(b - 1) < smax + 1
        /\ SampleBytes(smax) = (b + 7) \div 8
        /\ SampleMask(smax) = Pow2(b) - 1

----------------------------------------------------------------------------
(* src/dice.js: the match without commitments.  run() is one synchronous    *)
(* stretch up to each await; crypto.randomInt is a choice over its range.   *)

JsInit ==
    /\ dice \in DiceSets
    /\ args = ArgsOf(dice)
    /\ sha3 = FALSE
    /\ pc = "js_start"
    /\ computerFirst = None
    /\ computerDie = None
    /\ userDie = None
    /\ computerRollFace = None
    /\ userRollFace = None
    /\ gen = NoGen
    /\ result = 0
    /\ pubHmac = None /\ revKey = None /\ revNum = None
    /\ out = <<>>
    /\ table = None
    /\ smax = 0 /\ spc = "idle" /\ sres = 0 /\ drew = FALSE
    /\ imax = 0 /\ ipc = "idle" /\ ires = None /\ imsg = "none"

\* pickRandomDie: crypto.randomInt(0, this.dice.length)
JsPickRandomDie == 0..(Len(dice) - 1)

\* computerRoll of die d: crypto.randomInt(0, numFaces), then getFace
JsComputerRoll(d) == {getFace(d, rollIndex) : rollIndex \in 0..(numFaces(d) - 1)}

\* run() lines 76-83: who picks first; the computer's pick when it is first; the
\* die menu and the first question of selectUserDie
JsStart ==
    /\ pc = "js_start"
    /\ \E r \in 0..1 :
          /\ computerFirst' = Some(r = 0)
          /\ IF r = 0
             THEN /\ \E d \in JsPickRandomDie : computerDie' = Some(d)
                  /\ Log(<<"first.computer", "pick.computer", "pick.menu">>)
                  /\ pc' = "js_upick_second"
             ELSE /\ UNCHANGED computerDie
                  /\ Log(<<"first.user", "pick.menu">>)
                  /\ pc' = "js_upick_first"
    /\ CallInput(Len(dice) - 1)
    /\ UNCHANGED <<args, dice, sha3, userDie, computerRollFace, userRollFace, gen,
                   result, pubHmac, revKey, revNum, table>>
    /\ UNCHANGED samplerVars

\* run() lines 89-92 once both picks are over: the early return, or computerRoll
\* and userRoll up to its first question
JsAfterSelect(u, c, tags) ==
    IF u = None \/ c = None
    THEN /\ out' = out \o tags
         /\ pc' = "done"
         /\ InputDone
         /\ UNCHANGED computerRollFace
    ELSE /\ \E face \in JsComputerRoll(Val(c)) : computerRollFace' = Some(face)
         /\ out' = out \o tags \o <<"uroll.intro", "uroll.menu">>
         /\ pc' = "js_uroll"
         /\ CallInput(numFaces(Val(u)) - 1)

\* selectUserDie lines 166-169 on the resolved value
JsUserDieTaken == IF ires # None THEN Some(Val(ires)) ELSE userDie
JsPickTags == IF ires # None THEN <<"pick.user">> ELSE <<>>

\* run() line 82 returning (the computer picked first), then lines 89-92
JsUserPickSecond ==
    /\ pc = "js_upick_second" /\ InputReturned
    /\ userDie' = JsUserDieTaken
    /\ JsAfterSelect(userDie', computerDie, JsPickTags)
    /\ UNCHANGED <<args, dice, sha3, computerFirst, computerDie, userRollFace, gen,
                   result, pubHmac, revKey, revNum, table>>
    /\ UNCHANGED samplerVars

\* run() line 84 returning (the human picks first), lines 85-86, then lines 89-92
JsUserPickFirst ==
    /\ pc = "js_upick_first" /\ InputReturned
    /\ userDie' = JsUserDieTaken
    /\ \E d \in JsPickRandomDie : computerDie' = Some(d)
    /\ JsAfterSelect(userDie', computerDie', JsPickTags \o <<"pick.computer">>)
    /\ UNCHANGED <<args, dice, sha3, computerFirst, userRollFace, gen,
                   result, pubHmac, revKey, revNum, table>>
    /\ UNCHANGED samplerVars

\* the comparisons of lines 97-99 convert null to 0
JsToNumber(face) == IF face = None THEN 0 ELSE Val(face)

\* userRoll lines 181-184 on the resolved value, then run() lines 94-106
JsUserRoll ==
    /\ pc = "js_uroll" /\ InputReturned
    /\ userRollFace' = IF ires = None THEN None
                       ELSE Some(getFace(Val(userDie), Val(ires)))
    /\ Log(<<"roll.user", "roll.computer",
             Verdict(JsToNumber(userRollFace'), JsToNumber(computerRollFace)),
             "table.title", "table">>)
    /\ table' = Some(generateProbabilityTable)
    /\ pc' = "done"
    /\ InputDone
    /\ UNCHANGED <<args, dice, sha3, computerFirst, computerDie, userDie,
                   computerRollFace, gen, result, pubHmac, revKey, revNum>>
    /\ UNCHANGED samplerVars

JsNext ==
    \/ JsStart
    \/ JsUserPickSecond
    \/ JsUserPickFirst
    \/ JsUserRoll
    \/ ReadLine

JsSpec == JsInit /\ [][JsNext]_vars

\* C19: in src/dice.js, when the exit token is entered at the die-selection
\* prompt or at the human-roll prompt, the match aborts: neither roll is
\* printed, no verdict is computed and no probability table is printed.
C19_JsExitAborts ==
    (CancelledAt("pick.menu") \/ CancelledAt("uroll.menu")) =>
        /\ ~Has("roll.user") /\ ~Has("roll.computer")
        /\ ~HasVerdict
        /\ ~Has("table") /\ table = None

\* the two terminal outcomes of a match
Resolved == pc = "done" /\ ~Cancelled /\ HasVerdict /\ table # None
CancelledEnd == pc = "done" /\ Cancelled /\ ~HasVerdict /\ table = None

\* C20: when every rejection loop eventually accepts and the human eventually
\* enters the exit token or an integer in range at every prompt, a started match
\* eventually ends, either resolved with verdict and probability table or
\* cancelled, never both, and does not stay in an intermediate phase forever.
C20_MatchTerminates ==
    /\ (pc = "start") ~> (Resolved \/ CancelledEnd)
    /\ [](pc = "done" => (Resolved \/ CancelledEnd))

C20_Witness ==
    /\ Resolved
    /\ Has("verdict.tie")
    /\ computerFirst = Some(FALSE)

====
